---- MODULE Spec2Model ----
(***************************************************************************)
(* A model of src/server.py: TeorMinimumEvalHandler, a                     *)
(* SimpleHTTPRequestHandler that answers GET requests carrying a Range     *)
(* header with 206 Partial Content, and adds CORS headers to every         *)
(* response.  One behaviour of the model is one request on one connection. *)
(*                                                                         *)
(* Strings the code computes with (the Range header, the decimal numbers   *)
(* of Content-Length and Content-Range) are sequences of one-character     *)
(* strings; int() and str() are modelled by what they do.  The file the    *)
(* request path resolves to is owned by the file system: other processes   *)
(* may truncate, extend or remove it between two file accesses of the      *)
(* handler, and a write to the connection may raise OSError.               *)
(***************************************************************************)
EXTENDS Integers, Sequences, FiniteSets

\* ---------------------------------------------------------------- bounds
\* Longest range specifier (the text after "bytes=") a request carries.
MaxSpecLen == 4
\* Largest file, in bytes.
MaxFileSize == 3
\* How many times other processes change the file during one request.
MaxFsChanges == 1

\* ---------------------------------------------------------------- strings
Digit == <<"0", "1", "2", "3", "4", "5", "6", "7", "8", "9">>

IsDigit(c) == \E i \in 1..10 : Digit[i] = c

DigitVal(c) == (CHOOSE i \in 1..10 : Digit[i] = c) - 1

\* The characters a range specifier is built from: two digits, the
\* separator, and a character that is neither.
SpecChars == {"0", "1", "2", "-", "a"}

RECURSIVE StringsUpTo(_)
StringsUpTo(n) ==
    IF n = 0 THEN {<<>>}
    ELSE LET shorter == StringsUpTo(n - 1)
         IN  shorter \cup {Append(s, c) : s \in {t \in shorter : Len(t) = n - 1},
                                           c \in SpecChars}

BytesUnit == <<"b", "y", "t", "e", "s", "=">>
ItemsUnit == <<"i", "t", "e", "m", "s", "=">>

\* self.headers.get('Range') when the request has no Range header.
None == <<"<None>">>

\* str.startswith
StartsWith(s, p) == Len(s) >= Len(p) /\ SubSeq(s, 1, Len(p)) = p

\* range_header[6:]
StripUnit(s) == SubSeq(s, Len(BytesUnit) + 1, Len(s))

\* '-' in range_spec
HasDash(s) == \E i \in 1..Len(s) : s[i] = "-"

FirstDash(s) == CHOOSE i \in 1..Len(s) : s[i] = "-" /\ \A j \in 1..(i - 1) : s[j] # "-"

\* range_spec.split('-', 1): the text before and after the first '-'.
SplitStart(s) == SubSeq(s, 1, FirstDash(s) - 1)
SplitEnd(s) == SubSeq(s, FirstDash(s) + 1, Len(s))

RECURSIVE DigitsValue(_)
DigitsValue(s) ==
    IF Len(s) = 0 THEN 0
    ELSE 10 * DigitsValue(SubSeq(s, 1, Len(s) - 1)) + DigitVal(s[Len(s)])

AllDigits(s) == Len(s) > 0 /\ \A i \in 1..Len(s) : IsDigit(s[i])

\* int(s): an optional sign and at least one decimal digit; anything else
\* raises ValueError.  (Surrounding blanks and '_' between digits, which
\* int() also accepts, are not among SpecChars.)
IntOk(s) ==
    IF Len(s) > 0 /\ s[1] \in {"-", "+"} THEN AllDigits(Tail(s)) ELSE AllDigits(s)

IntVal(s) ==
    IF s[1] = "-" THEN 0 - DigitsValue(Tail(s))
    ELSE IF s[1] = "+" THEN DigitsValue(Tail(s))
    ELSE DigitsValue(s)

\* str(n)
RECURSIVE NatStr(_)
NatStr(n) == IF n < 10 THEN <<Digit[n + 1]>> ELSE Append(NatStr(n \div 10), Digit[(n % 10) + 1])

Str(n) == IF n < 0 THEN <<"-">> \o NatStr(0 - n) ELSE NatStr(n)

\* ---------------------------------------------------------------- files
\* The byte at each offset of the served file (offset i is ByteAt[i + 1]).
ByteAt == <<"b0", "b1", "b2", "b3", "b4", "b5", "b6", "b7">>

FileOfSize(n) == [i \in 1..n |-> ByteAt[i]]

\* What the request path resolves to.
FsStates ==
    {[kind |-> "missing", content |-> <<>>], [kind |-> "dir", content |-> <<>>]}
    \cup {[kind |-> "file", content |-> FileOfSize(n)] : n \in 0..MaxFileSize}

\* ---------------------------------------------------------------- requests
Specs == StringsUpTo(MaxSpecLen)

RangeHeaders ==
    {None, <<>>}
    \cup {BytesUnit \o s : s \in Specs}
    \cup {ItemsUnit \o s : s \in {t \in Specs : Len(t) <= 3 /\ \A i \in 1..Len(t) : t[i] \in {"0", "-"}}}
    \cup {SubSeq(BytesUnit, 1, 5) \o s : s \in {<<>>, <<"0", "-", "0">>}}

VARIABLES
    command,         \* self.command
    range_header,    \* self.headers.get('Range')
    fs,              \* what translate_path(self.path) names on disk
    fs_changes,      \* changes other processes made to it during the request
    pc,              \* the handler's position
    file_size,       \* handle_range_request's locals (0 until assigned)
    start,
    end,
    data,
    exc,             \* the exception being handled, "" when none
    in_try,          \* inside handle_range_request's try block
    err_body,        \* the error page send_error still has to write
    headers_buffer,  \* BaseHTTPRequestHandler._headers_buffer
    wire,            \* what wfile has written to the connection, in order
    opened,          \* the file was opened by the handler
    io_failed        \* a write to the connection raised

vars == <<command, range_header, fs, fs_changes, pc, file_size, start, end, data,
          exc, in_try, err_body, headers_buffer, wire, opened, io_failed>>

locals == <<file_size, start, end, data>>
request == <<command, range_header>>

Init ==
    /\ command \in {"GET", "OPTIONS"}
    /\ range_header \in RangeHeaders
    /\ command = "OPTIONS" => range_header = None
    /\ fs \in FsStates
    /\ fs_changes = 0
    /\ pc = "dispatch"
    /\ file_size = 0
    /\ start = 0
    /\ end = 0
    /\ data = <<>>
    /\ exc = ""
    /\ in_try = FALSE
    /\ err_body = <<>>
    /\ headers_buffer = <<>>
    /\ wire = <<>>
    /\ opened = FALSE
    /\ io_failed = FALSE

\* ---------------------------------------------------------------- responses
StatusLine(code, text) == [kind |-> "status", code |-> code, name |-> "", value |-> text]
Header(name, value) == [kind |-> "header", code |-> 0, name |-> name, value |-> value]
Body(of, bytes) == [kind |-> "body", code |-> 0, name |-> of, value |-> bytes]

\* send_response(code, message): the status line, then the Server and Date
\* headers, all buffered.
send_response(code, text) ==
    <<StatusLine(code, text), Header("Server", <<"SimpleHTTP">>), Header("Date", <<"now">>)>>

\* The three send_header calls of end_headers.
CorsHeaders ==
    << Header("Access-Control-Allow-Origin", <<"*">>),
       Header("Access-Control-Allow-Methods", <<"GET, POST, OPTIONS">>),
       Header("Access-Control-Allow-Headers", <<"Content-Type, Range">>) >>

\* end_headers: the CORS headers are added to the buffered block, which
\* super().end_headers() then writes to wfile.
end_headers(buf) == buf \o CorsHeaders

\* An exception raised at the current position: handle_range_request's
\* except clause catches it when it is raised inside the try block
\* (caught); otherwise it leaves the handler.
Raise(e, caught) ==
    /\ pc' = IF caught THEN "except" ELSE "crashed"
    /\ exc' = e

\* flush_headers: wfile.write(b"".join(_headers_buffer)), and only then
\* _headers_buffer = []: a write that raises leaves the buffer as it is.
FlushThen(buf, next, caught) ==
    \/ /\ wire' = wire \o buf
       /\ headers_buffer' = <<>>
       /\ pc' = next
       /\ UNCHANGED <<exc, io_failed>>
    \/ /\ wire' = wire
       /\ headers_buffer' = buf
       /\ io_failed' = TRUE
       /\ Raise("OSError", caught)

\* send_error(code, message), up to and including end_headers; the error
\* page is written next (WriteErrorBody).
send_error(code, text, caught) ==
    /\ err_body' = text
    /\ FlushThen(end_headers(headers_buffer
                     \o send_response(code, text)
                     \o << Header("Connection", <<"close">>),
                           Header("Content-Type", <<"text/html;charset=utf-8">>),
                           Header("Content-Length", <<"len(body)">>) >>),
                 "error_body", caught)

\* Nothing is buffered or written, and nothing is raised.
Silent == UNCHANGED <<err_body, headers_buffer, wire, io_failed, exc>>

\* ---------------------------------------------------------------- range logic
\* A handler that takes any unit for bytes.
UnitOk_AnyUnit(h) == Len(h) >= Len(BytesUnit)

\* range_header.startswith('bytes=')
UnitOk(h) == StartsWith(h, BytesUnit)

\* os.path.isfile taken for os.path.exists: a directory passes.
IsRegularFile_AnyEntry(f) == f.kind # "missing"

\* os.path.isfile(file_path)
IsRegularFile(f) == f.kind = "file"

\* An empty start that does not mean offset 0.
RangeStart_NotZero(spec) == IF SplitStart(spec) = <<>> THEN 1 ELSE IntVal(SplitStart(spec))

\* start = int(start_str) if start_str else 0
RangeStart(spec) == IF SplitStart(spec) = <<>> THEN 0 ELSE IntVal(SplitStart(spec))

\* An empty end defaulted to file_size, one past the last byte.
RangeEnd_PastLast(spec, size) == IF SplitEnd(spec) = <<>> THEN size ELSE IntVal(SplitEnd(spec))

\* end = int(end_str) if end_str else file_size - 1
RangeEnd(spec, size) == IF SplitEnd(spec) = <<>> THEN size - 1 ELSE IntVal(SplitEnd(spec))

\* One of the two int() calls raises ValueError.
RangeUnparseable(spec) ==
    \/ SplitStart(spec) # <<>> /\ ~IntOk(SplitStart(spec))
    \/ SplitEnd(spec) # <<>> /\ ~IntOk(SplitEnd(spec))

\* A validation that leaves the end to be clamped by the read.
RangeInvalid_Clamping(s, e, size) == s < 0 \/ s >= size \/ s > e

\* start < 0 or end >= file_size or start > end
RangeInvalid(s, e, size) == s < 0 \/ e >= size \/ s > e

\* A read of end - start bytes, one short.
ReadBytes_OneShort(content, s, e) ==
    SubSeq(content, s + 1, IF e < Len(content) THEN e ELSE Len(content))

\* f.seek(start); f.read(end - start + 1): at most that many bytes, fewer
\* when the file ends before offset end.
ReadBytes(content, s, e) ==
    SubSeq(content, s + 1, IF e + 1 < Len(content) THEN e + 1 ELSE Len(content))

\* The header block of the 206 response, as handle_range_request buffers it
\* before end_headers.
PartialHeaders(bytes, s, e, size) ==
    send_response(206, <<"Partial Content">>)
    \o << Header("Content-Type", <<"application/octet-stream">>),
          Header("Content-Length", Str(Len(bytes))),
          Header("Content-Range",
                 <<"b", "y", "t", "e", "s", " ">> \o Str(s) \o <<"-">> \o Str(e)
                     \o <<"/">> \o Str(size)),
          Header("Accept-Ranges", <<"bytes">>),
          Header("Access-Control-Allow-Origin", <<"*">>),
          Header("Access-Control-Allow-Methods", <<"GET, POST, OPTIONS">>),
          Header("Access-Control-Allow-Headers", <<"Content-Type, Range">>) >>

\* ---------------------------------------------------------------- handler
\* do_GET: a truthy Range header goes to handle_range_request (entering its
\* try block), anything else to SimpleHTTPRequestHandler.do_GET.
do_GET ==
    /\ pc = "dispatch"
    /\ command = "GET"
    /\ \/ /\ range_header \notin {None, <<>>}
          /\ pc' = "handle_range_request"
          /\ in_try' = TRUE
       \/ /\ range_header \in {None, <<>>}
          /\ pc' = "static"
          /\ in_try' = FALSE
    /\ Silent
    /\ UNCHANGED <<request, fs, fs_changes, locals, opened>>

\* handle_range_request, the unit check.
CheckUnit ==
    /\ pc = "handle_range_request"
    /\ IF ~UnitOk(range_header)
       THEN send_error(400, <<"Invalid Range header">>, in_try)
       ELSE pc' = "exists" /\ Silent
    /\ UNCHANGED <<request, fs, fs_changes, locals, in_try, opened>>

\* os.path.exists(file_path)
PathExists ==
    /\ pc = "exists"
    /\ IF fs.kind = "missing"
       THEN send_error(404, <<"File not found">>, in_try)
       ELSE pc' = "isfile" /\ Silent
    /\ UNCHANGED <<request, fs, fs_changes, locals, in_try, opened>>

\* os.path.isfile(file_path)
PathIsFile ==
    /\ pc = "isfile"
    /\ IF ~IsRegularFile(fs)
       THEN send_error(404, <<"File not found">>, in_try)
       ELSE pc' = "getsize" /\ Silent
    /\ UNCHANGED <<request, fs, fs_changes, locals, in_try, opened>>

\* file_size = os.path.getsize(file_path)
GetSize ==
    /\ pc = "getsize"
    /\ IF fs.kind = "file"
       THEN /\ file_size' = Len(fs.content)
            /\ pc' = "parse"
            /\ UNCHANGED exc
       ELSE /\ Raise("FileNotFoundError", in_try)
            /\ UNCHANGED file_size
    /\ UNCHANGED <<err_body, headers_buffer, wire, io_failed>>
    /\ UNCHANGED <<request, fs, fs_changes, start, end, data, in_try, opened>>

\* Parsing and validating the range.
ParseRange ==
    /\ pc = "parse"
    /\ LET range_spec == StripUnit(range_header)
       IN  IF ~HasDash(range_spec)
           THEN /\ send_error(400, <<"Invalid Range header">>, in_try)
                /\ UNCHANGED <<start, end>>
           ELSE IF RangeUnparseable(range_spec)
           THEN /\ Raise("ValueError", in_try)
                /\ UNCHANGED <<err_body, headers_buffer, wire, io_failed>>
                /\ UNCHANGED <<start, end>>
           ELSE /\ start' = RangeStart(range_spec)
                /\ end' = RangeEnd(range_spec, file_size)
                /\ IF RangeInvalid(start', end', file_size)
                   THEN send_error(416, <<"Requested Range Not Satisfiable">>, in_try)
                   ELSE pc' = "open" /\ Silent
    /\ UNCHANGED <<request, fs, fs_changes, file_size, data, in_try, opened>>

\* open(file_path, 'rb')
OpenFile ==
    /\ pc = "open"
    /\ IF fs.kind = "file"
       THEN /\ opened' = TRUE
            /\ pc' = "read"
            /\ UNCHANGED exc
       ELSE /\ Raise("FileNotFoundError", in_try)
            /\ UNCHANGED opened
    /\ UNCHANGED <<err_body, headers_buffer, wire, io_failed>>
    /\ UNCHANGED <<request, fs, fs_changes, locals, in_try>>

\* f.seek(start); data = f.read(end - start + 1)
ReadFile ==
    /\ pc = "read"
    /\ data' = ReadBytes(fs.content, start, end)
    /\ pc' = "send_partial"
    /\ Silent
    /\ UNCHANGED <<request, fs, fs_changes, file_size, start, end, in_try, opened>>

\* send_response(206) up to end_headers().
SendPartial ==
    /\ pc = "send_partial"
    /\ FlushThen(end_headers(headers_buffer \o PartialHeaders(data, start, end, file_size)),
                 "write_body", in_try)
    /\ UNCHANGED <<request, fs, fs_changes, locals, in_try, err_body, opened>>

\* self.wfile.write(data)
WriteBody ==
    /\ pc = "write_body"
    /\ \/ /\ wire' = Append(wire, Body("file", data))
          /\ pc' = "done"
          /\ UNCHANGED <<exc, io_failed>>
       \/ /\ io_failed' = TRUE
          /\ Raise("OSError", in_try)
          /\ UNCHANGED wire
    /\ UNCHANGED <<request, fs, fs_changes, locals, in_try, err_body, headers_buffer, opened>>

\* except Exception as e: print(...); send_error(500, ...).  An exception
\* raised from here on leaves the handler.
HandleException ==
    /\ pc = "except"
    /\ in_try' = FALSE
    /\ send_error(500, <<"Internal server error: ", exc>>, FALSE)
    /\ UNCHANGED <<request, fs, fs_changes, locals, opened>>

\* send_error's last statement: self.wfile.write(body).
WriteErrorBody ==
    /\ pc = "error_body"
    /\ \/ /\ wire' = Append(wire, Body("error", err_body))
          /\ pc' = "done"
          /\ UNCHANGED <<exc, io_failed>>
       \/ /\ io_failed' = TRUE
          /\ Raise("OSError", in_try)
          /\ UNCHANGED wire
    /\ UNCHANGED <<request, fs, fs_changes, locals, in_try, err_body, headers_buffer, opened>>

\* do_OPTIONS: send_response(200); end_headers()
do_OPTIONS ==
    /\ pc = "dispatch"
    /\ command = "OPTIONS"
    /\ FlushThen(end_headers(headers_buffer \o send_response(200, <<"OK">>)), "done", FALSE)
    /\ UNCHANGED <<request, fs, fs_changes, locals, in_try, err_body, opened>>

\* super().do_GET(): the library's full-file response, whose end_headers is
\* the overridden one.
StaticGET ==
    /\ pc = "static"
    /\ IF fs.kind = "missing"
       THEN send_error(404, <<"File not found">>, FALSE)
       ELSE /\ FlushThen(end_headers(headers_buffer
                             \o send_response(200, <<"OK">>)
                             \o << Header("Content-type", <<"guess_type(path)">>),
                                   Header("Content-Length", Str(Len(fs.content))) >>),
                         "static_body", FALSE)
            /\ UNCHANGED err_body
    /\ UNCHANGED <<request, fs, fs_changes, locals, in_try, opened>>

\* The library's copyfile of the file (or of the directory listing).
StaticBody ==
    /\ pc = "static_body"
    /\ \/ /\ wire' = Append(wire, Body(fs.kind, fs.content))
          /\ pc' = "done"
          /\ UNCHANGED <<exc, io_failed>>
       \/ /\ io_failed' = TRUE
          /\ Raise("OSError", FALSE)
          /\ UNCHANGED wire
    /\ UNCHANGED <<request, fs, fs_changes, locals, in_try, err_body, headers_buffer, opened>>

\* ---------------------------------------------------------------- file system
\* Other processes act on the file between the handler's first file access
\* (os.path.exists) and its last (f.read); a change before or after those is
\* a different initial file, or is not observed.
FsWindow == pc \in {"isfile", "getsize", "parse", "open", "read"}

FsChange(new) ==
    /\ FsWindow
    /\ fs.kind = "file"
    /\ fs_changes < MaxFsChanges
    /\ fs' = new
    /\ fs_changes' = fs_changes + 1
    /\ UNCHANGED <<request, pc, locals, exc, in_try, err_body, headers_buffer, wire,
                   opened, io_failed>>

FsTruncate == \E n \in 0..(Len(fs.content) - 1) : FsChange([fs EXCEPT !.content = SubSeq(@, 1, n)])

FsAppend ==
    /\ Len(fs.content) < MaxFileSize
    /\ FsChange([fs EXCEPT !.content = Append(@, ByteAt[Len(@) + 1])])

\* Unlinking the path; a file the handler holds open keeps its bytes.
FsRemove == FsChange([kind |-> "missing", content |-> IF pc = "read" THEN fs.content ELSE <<>>])

Next ==
    \/ do_GET
    \/ do_OPTIONS
    \/ CheckUnit
    \/ PathExists
    \/ PathIsFile
    \/ GetSize
    \/ ParseRange
    \/ OpenFile
    \/ ReadFile
    \/ SendPartial
    \/ WriteBody
    \/ HandleException
    \/ WriteErrorBody
    \/ StaticGET
    \/ StaticBody
    \/ FsTruncate
    \/ FsAppend
    \/ FsRemove

Spec == Init /\ [][Next]_vars

\* ---------------------------------------------------------------- observations
\* The request has been answered and the handler has returned.
Done == pc = "done"

\* No other process touched the file and no write to the connection raised.
Quiet == fs_changes = 0 /\ ~io_failed

IsStatus(x) == x.kind = "status"
IsBody(x) == x.kind = "body"

\* The status codes written to the connection, in order.
StatusLines == SelectSeq(wire, IsStatus)
StatusCodes == [i \in 1..Len(StatusLines) |-> StatusLines[i].code]

\* The bodies written to the connection, in order.
Bodies == SelectSeq(wire, IsBody)

\* The values of the headers of one name written to the connection.
HeaderValues(name) ==
    LET Named(x) == x.kind = "header" /\ x.name = name
        hs == SelectSeq(wire, Named)
    IN  [i \in 1..Len(hs) |-> hs[i].value]

\* The decimal numeral of a natural number below 100000, digit by digit.
NumDigits(n) ==
    IF n < 10 THEN 1 ELSE IF n < 100 THEN 2 ELSE IF n < 1000 THEN 3 ELSE IF n < 10000 THEN 4 ELSE 5

Pow10(k) == IF k = 0 THEN 1 ELSE IF k = 1 THEN 10 ELSE IF k = 2 THEN 100 ELSE IF k = 3 THEN 1000 ELSE 10000

Decimal(n) ==
    IF n < 0 THEN <<"?">>
    ELSE [i \in 1..NumDigits(n) |-> Digit[((n \div Pow10(NumDigits(n) - i)) % 10) + 1]]

\* The value of "Content-Range: bytes s-e/size".
ContentRange(s, e, size) ==
    <<"b", "y", "t", "e", "s", " ">> \o Decimal(s) \o <<"-">> \o Decimal(e) \o <<"/">> \o Decimal(size)

\* The file's bytes at offsets s..e inclusive.
Slice(s, e) == [i \in 1..(e - s + 1) |-> ByteAt[s + i]]

\* The one response is 206 with the file's bytes s..e and matching framing.
Partial(s, e, size) ==
    /\ StatusCodes = <<206>>
    /\ Bodies = <<Body("file", Slice(s, e))>>
    /\ HeaderValues("Content-Length") = <<Decimal(e - s + 1)>>
    /\ HeaderValues("Content-Range") = <<ContentRange(s, e, size)>>

\* A GET with a truthy Range header, answered.
RangeDone == Done /\ command = "GET" /\ range_header \notin {None, <<>>}

FileSize == Len(fs.content)

\* ---------------------------------------------------------------- claims

\* C1: on an unchanged regular file of size file_size, a GET whose Range
\* header is bytes=<start>-<end> with 0 <= start <= end <= file_size-1 is
\* answered 206 with the file's bytes start..end, Content-Length
\* end-start+1 and Content-Range "bytes start-end/file_size".
C1_ValidRangeServed ==
    \A s \in 0..MaxFileSize : \A e \in 0..MaxFileSize :
        ( /\ RangeDone /\ Quiet
          /\ fs.kind = "file"
          /\ s <= e /\ e <= FileSize - 1
          /\ range_header = BytesUnit \o Decimal(s) \o <<"-">> \o Decimal(e) )
        => Partial(s, e, FileSize)

C1_Witness ==
    /\ RangeDone /\ Quiet
    /\ fs = [kind |-> "file", content |-> FileOfSize(3)]
    /\ range_header = BytesUnit \o <<"1", "-", "2">>
    /\ Bodies = <<Body("file", <<"b1", "b2">>)>>

\* C2: on an unchanged regular file and a Range header with parseable
\* bounds, the answer is 416 exactly when the defaulted bounds violate
\* 0 <= start <= end <= file_size-1, and 206 otherwise; a 416 is never
\* preceded by opening or reading the file, carries no file bytes, and the
\* range is never clamped to the file.
C2_UnsatisfiableIs416 ==
    /\ (\E i \in 1..Len(wire) : wire[i].code = 416)
           => ~opened /\ data = <<>> /\ \A j \in 1..Len(Bodies) : Bodies[j].name # "file"
    /\ ( /\ RangeDone /\ Quiet
         /\ fs.kind = "file"
         /\ StartsWith(range_header, BytesUnit)
         /\ HasDash(StripUnit(range_header))
         /\ ~RangeUnparseable(StripUnit(range_header)) )
       => LET s == RangeStart(StripUnit(range_header))
              e == RangeEnd(StripUnit(range_header), FileSize)
          IN  IF 0 <= s /\ s <= e /\ e <= FileSize - 1
              THEN Partial(s, e, FileSize)
              ELSE StatusCodes = <<416>> /\ ~opened

C2_Witness ==
    /\ RangeDone /\ Quiet
    /\ fs = [kind |-> "file", content |-> FileOfSize(1)]
    /\ range_header = BytesUnit \o <<"1", "-", "1", "1">>
    /\ StatusCodes = <<416>>
    /\ ~opened

\* C3 as stated: a truthy Range header that does not begin with bytes=, or
\* whose specifier has no '-', is answered 400 for every request path.
C3_Original ==
    ( /\ RangeDone /\ Quiet
      /\ \/ ~StartsWith(range_header, BytesUnit)
         \/ ~HasDash(StripUnit(range_header)) )
    => StatusCodes = <<400>>

\* C3 as amended: a Range header that does not begin with bytes= is
\* answered 400 for every request path; one that begins with bytes= and
\* whose specifier has no '-' is answered 400 when the path is a regular
\* file and 404 when it is not (the path is resolved before the specifier
\* is looked at).
C3_SyntaxChecks ==
    (RangeDone /\ Quiet)
    => /\ ~StartsWith(range_header, BytesUnit) => StatusCodes = <<400>>
       /\ (StartsWith(range_header, BytesUnit) /\ ~HasDash(StripUnit(range_header)))
              => StatusCodes = IF fs.kind = "file" THEN <<400>> ELSE <<404>>

C3_Witness ==
    /\ RangeDone /\ Quiet
    /\ range_header = BytesUnit \o <<"0", "1">>
    /\ fs.kind = "missing"
    /\ StatusCodes = <<404>>

\* C4 as stated: a GET with a truthy Range header whose path is not an
\* existing regular file is answered 404, whatever the header.
C4_Original ==
    (RangeDone /\ Quiet /\ fs.kind # "file") => StatusCodes = <<404>>

\* C4 as amended: a GET whose Range header begins with bytes= and whose
\* path is not an existing regular file is answered 404 "File not found",
\* whatever the specifier (no '-', unparseable, reversed, out of bounds,
\* open-ended); a header that does not begin with bytes= is answered 400
\* before the path is looked at.
C4_MissingFileIs404 ==
    (RangeDone /\ Quiet /\ fs.kind # "file")
    => IF StartsWith(range_header, BytesUnit)
       THEN /\ StatusCodes = <<404>>
            /\ Bodies = <<Body("error", <<"File not found">>)>>
       ELSE StatusCodes = <<400>>

C4_Witness ==
    /\ RangeDone /\ Quiet
    /\ fs.kind = "dir"
    /\ range_header = BytesUnit \o <<"a", "-", "2", "1">>
    /\ StatusCodes = <<404>>

\* C5: without a failure of file access or of a write to the connection no
\* 500 is sent, and a bytes= specifier with a '-' whose start or end is not
\* a non-negative decimal integer is answered 400 on an unchanged regular
\* file.
C5_Original ==
    /\ Quiet => \A i \in 1..Len(wire) : wire[i].code # 500
    /\ ( /\ RangeDone /\ Quiet
         /\ fs.kind = "file"
         /\ StartsWith(range_header, BytesUnit)
         /\ HasDash(StripUnit(range_header))
         /\ \/ SplitStart(StripUnit(range_header)) \notin {<<>>} /\ ~AllDigits(SplitStart(StripUnit(range_header)))
            \/ SplitEnd(StripUnit(range_header)) \notin {<<>>} /\ ~AllDigits(SplitEnd(StripUnit(range_header))) )
       => StatusCodes = <<400>>

\* C6: on an unchanged regular file, bytes=-K is answered as bytes=0-K is:
\* 206 with bytes 0..K and Content-Range "bytes 0-K/file_size" when
\* K < file_size, 416 when K >= file_size; never the last K bytes.
C6_EmptyStartIsZero ==
    ( /\ RangeDone /\ Quiet
      /\ fs.kind = "file"
      /\ StartsWith(range_header, BytesUnit)
      /\ HasDash(StripUnit(range_header))
      /\ SplitStart(StripUnit(range_header)) \in {<<>>, <<"0">>}
      /\ AllDigits(SplitEnd(StripUnit(range_header)))
      /\ SplitEnd(StripUnit(range_header)) = Decimal(DigitsValue(SplitEnd(StripUnit(range_header)))) )
    => LET K == DigitsValue(SplitEnd(StripUnit(range_header)))
       IN  IF K < FileSize
           THEN Partial(0, K, FileSize)
           ELSE StatusCodes = <<416>> /\ \A j \in 1..Len(Bodies) : Bodies[j].name # "file"

C6_Witness ==
    /\ RangeDone /\ Quiet
    /\ fs = [kind |-> "file", content |-> FileOfSize(3)]
    /\ range_header = BytesUnit \o <<"-", "1">>
    /\ Bodies = <<Body("file", <<"b0", "b1">>)>>
    /\ HeaderValues("Content-Range") = <<ContentRange(0, 1, 3)>>

\* C7 as stated: on an unchanged regular file of any size N, the empty file
\* included, bytes=0- is answered 206 with the whole file, Content-Range
\* "bytes 0-<N-1>/<N>" and Content-Length N.
C7_Original ==
    ( /\ RangeDone /\ Quiet
      /\ fs.kind = "file"
      /\ range_header = BytesUnit \o <<"0", "-">> )
    => /\ StatusCodes = <<206>>
       /\ Bodies = <<Body("file", fs.content)>>
       /\ HeaderValues("Content-Length") = <<Decimal(FileSize)>>
       /\ HeaderValues("Content-Range") = <<ContentRange(0, FileSize - 1, FileSize)>>

\* C7 as amended: on an unchanged regular file of size N >= 1, bytes=0- is
\* answered 206 with the whole file, Content-Range "bytes 0-<N-1>/<N>" and
\* Content-Length N; on the empty file (N = 0) the defaulted end is -1 and
\* the answer is 416.
C7_OpenEndServesWholeFile ==
    ( /\ RangeDone /\ Quiet
      /\ fs.kind = "file"
      /\ range_header = BytesUnit \o <<"0", "-">> )
    => IF FileSize >= 1
       THEN /\ StatusCodes = <<206>>
            /\ Bodies = <<Body("file", FileOfSize(FileSize))>>
            /\ HeaderValues("Content-Length") = <<Decimal(FileSize)>>
            /\ HeaderValues("Content-Range") = <<ContentRange(0, FileSize - 1, FileSize)>>
       ELSE StatusCodes = <<416>> /\ Bodies = <<Body("error", <<"Requested Range Not Satisfiable">>)>>

C7_Witness ==
    /\ RangeDone /\ Quiet
    /\ fs = [kind |-> "file", content |-> FileOfSize(3)]
    /\ range_header = BytesUnit \o <<"0", "-">>
    /\ Bodies = <<Body("file", <<"b0", "b1", "b2">>)>>

\* C8: every response carries the three CORS headers, and a 206 response
\* carries each header of its block (Content-Type, Content-Length,
\* Content-Range, Accept-Ranges and the three CORS headers) exactly once.
C8_Original ==
    (Done /\ Quiet)
    => /\ \A i \in 1..Len(CorsHeaders) : Len(HeaderValues(CorsHeaders[i].name)) >= 1
       /\ StatusCodes = <<206>>
              => \A n \in {"Content-Type", "Content-Length", "Content-Range", "Accept-Ranges"}
                          \cup {CorsHeaders[i].name : i \in 1..Len(CorsHeaders)} :
                     Len(HeaderValues(n)) = 1

\* C9: whatever other processes do to the file during the request, a 206
\* that has been sent announces in Content-Length the span end-start+1 of
\* its Content-Range, and its body has that many bytes.
C9_Original ==
    (Done /\ ~io_failed /\ StatusCodes = <<206>>)
    => /\ HeaderValues("Content-Range") = <<ContentRange(start, end, file_size)>>
       /\ HeaderValues("Content-Length") = <<Decimal(end - start + 1)>>
       /\ Len(Bodies[1].value) = end - start + 1

\* C10: a request gets one response: once the 206 status line has been
\* written to the connection it stays the only status line there, also when
\* a later write raises; no 500 follows it.
C10_Original ==
    (\E i \in 1..Len(StatusCodes) : StatusCodes[i] = 206) => Len(StatusLines) <= 1
====
